---------------------------- MODULE Spec2Model ----------------------------
(***************************************************************************)
(* Model of lzxd's Bitstream (src/bitstream.rs): a cursor over a byte      *)
(* slice that hands out bits MSB-first from little-endian 16-bit words.    *)
(*                                                                         *)
(* A cursor is the record [buffer, n, remaining] of the struct's fields.   *)
(* Every method is an operator from a cursor to the cursor it leaves, the  *)
(* value it returns and its outcome: "ok", or the kind of panic that ends  *)
(* the call ("index_oob", "assert", "shl_overflow").  A panic ends the run *)
(* with the fields as the unwinding call left them.  A u16 is a natural    *)
(* below 2^16; a u32 is the pair <<high half, low half>> of two u16.       *)
(***************************************************************************)
EXTENDS Naturals, Integers, Sequences, FiniteSets

(* ------------------------------ bounds --------------------------------- *)

\* Longest input buffer, in bytes.
MaxLen == 4

\* Largest `bits` argument handed to read_bits / peek_bits.
MaxBits == 17

\* Longest sequence of packed values of the round-trip specification.
MaxVals == 3

\* Byte values the generated buffers are made of: 0x00 and 0xCD.
ByteVals == {0, 205}

\* Buffers of the repository's tests: read_32le (line 170), is_empty (line 195).
TestVectors == { <<86, 120, 18, 52>>, <<171, 205>> }

Inputs == UNION { [1..len -> ByteVals] : len \in 0..MaxLen } \cup TestVectors

\* Length of the buffers of the specification of the 32-bit reads.
WideLen == 6

\* read_bits counts that specification uses to leave the word boundary.
WideBits == {1, 7}

WideInputs == [1..WideLen -> ByteVals] \cup { <<86, 120, 18, 52>> }

\* Widths of the packed values of the round-trip specification, and for each
\* width the values: all zeros, all ones, and the low bits of 0xA6CD.
Widths == {0, 1, 4, 11, 16}
Samples(w) == {0, 2^w - 1, 42701 % 2^w}
Fields == UNION { { [w |-> w, v |-> v] : v \in Samples(w) } : w \in Widths }

\* bit_lengths and the values 0..=10 of tests::read_sequential
SequentialFields ==
    [i \in 1..11 |-> [w |-> <<1, 1, 2, 2, 3, 3, 3, 3, 4, 4, 4>>[i], v |-> i - 1]]

PackedSeqs ==
    UNION { [1..len -> Fields] : len \in 1..MaxVals } \cup { SequentialFields }

(* --------------------------- u16 arithmetic ---------------------------- *)

U16 == 65536

RECURSIVE BitAnd(_, _)
\* a & b
BitAnd(a, b) ==
    IF a = 0 \/ b = 0 THEN 0
    ELSE ((a % 2) * (b % 2)) + 2 * BitAnd(a \div 2, b \div 2)

RECURSIVE BitOr(_, _)
\* a | b
BitOr(a, b) ==
    IF a = 0 THEN b
    ELSE IF b = 0 THEN a
    ELSE (IF a % 2 = 1 \/ b % 2 = 1 THEN 1 ELSE 0) + 2 * BitOr(a \div 2, b \div 2)

\* u16::rotate_left(k): the rotation is by k mod 16.
rotate_left(x, k) ==
    LET s == k % 16
    IN  ((x * 2^s) % U16) + (x \div 2^(16 - s))

\* Variant of swap_bytes: the swap left out.
swap_bytes_Identity(x) == x

\* u16::swap_bytes
swap_bytes(x) == ((x % 256) * 256) + (x \div 256)

\* Variant of from_le_bytes: the first byte taken as the high one.
from_le_bytes_BigEndian(b0, b1) == (b0 * 256) + b1

\* u16::from_le_bytes([b0, b1])
from_le_bytes(b0, b1) == b0 + (256 * b1)

\* `1 << bits` on u16 overflows when bits >= 16: a panic in a build with
\* overflow checks, a shift by bits mod 16 without them.
ShlOverflows(bits) == bits >= 16

\* (1 << bits) - 1 on u16, with the wrapping shift
Mask(bits) == 2^(bits % 16) - 1

\* Variant of MaskWide: the shift done on u16, wrapping at 16 (line 62).
MaskWide_NarrowShift(bits) == 2^(bits % 16) - 1

\* ((1u32 << bits) as u16).wrapping_sub(1), for bits <= 16
MaskWide(bits) == (((2^bits) % U16) + (U16 - 1)) % U16

\* Variant of Combine: the later fragment put in the high position.
Combine_LoFirst(hi, bits, lo) == BitOr((lo * 2^bits) % U16, hi)

\* ((hi as u32) << bits) as u16 | lo, for hi < 2^(16 - bits)
Combine(hi, bits, lo) == BitOr((hi * 2^bits) % U16, lo)

(* --------------------------- u32 arithmetic ---------------------------- *)

\* x as u32, for a u16 x: the pair <<high half, low half>>
AsU32(x) == <<0, x>>

\* x << k on u32, for 0 <= k <= 16: the bits shifted out of the top are lost
Shl32(x, k) ==
    <<((x[1] * 2^k) % U16) + (x[2] \div 2^(16 - k)),
      (x[2] % 2^(16 - k)) * 2^k>>

\* a | b on u32
Or32(a, b) == <<BitOr(a[1], b[1]), BitOr(a[2], b[2])>>

(* ------------------------------ methods -------------------------------- *)

\* Bitstream::new
new(buf) == [buffer |-> buf, n |-> 0, remaining |-> 0]

\* The value slot of a call that panicked.
NoValue == -1

Ret(c, val) == [c |-> c, val |-> val, out |-> "ok"]
Panic(c, kind) == [c |-> c, val |-> NoValue, out |-> kind]

\* Variant of advance_buffer: a third byte is asked for.
advance_buffer_OffByOne(c) ==
    LET c1 == [c EXCEPT !.remaining = 16]
    IN  IF Len(c.buffer) < 3
        THEN Panic(c1, "index_oob")
        ELSE Ret([c1 EXCEPT !.n = from_le_bytes(c.buffer[1], c.buffer[2]),
                            !.buffer = SubSeq(c.buffer, 3, Len(c.buffer))], 0)

\* Variant of advance_buffer: the view shrinks by one byte only.
advance_buffer_DropsOne(c) ==
    LET c1 == [c EXCEPT !.remaining = 16]
    IN  IF Len(c.buffer) < 2
        THEN Panic(c1, "index_oob")
        ELSE Ret([c1 EXCEPT !.n = from_le_bytes(c.buffer[1], c.buffer[2]),
                            !.buffer = SubSeq(c.buffer, 2, Len(c.buffer))], 0)

\* advance_buffer: `remaining` is set before the two bytes are indexed.
advance_buffer(c) ==
    LET c1 == [c EXCEPT !.remaining = 16]
    IN  IF Len(c.buffer) < 2
        THEN Panic(c1, "index_oob")
        ELSE Ret([c1 EXCEPT !.n = from_le_bytes(c.buffer[1], c.buffer[2]),
                            !.buffer = SubSeq(c.buffer, 3, Len(c.buffer))], 0)

\* Variant of read_bit: no word is loaded when none is left.
read_bit_NoLoad(c) ==
    LET n1 == rotate_left(c.n, 1)
    IN  Ret([c EXCEPT !.remaining = @ - 1, !.n = n1], BitAnd(n1, 1))

\* Variant of read_bit: the next word is loaded as soon as the last bit of
\* the current one is taken.
read_bit_EagerLoad(c) ==
    LET a == IF c.remaining = 0 THEN advance_buffer(c) ELSE Ret(c, 0)
    IN  IF a.out # "ok" THEN a
        ELSE LET n1 == rotate_left(a.c.n, 1)
                 c1 == [a.c EXCEPT !.remaining = @ - 1, !.n = n1]
             IN  IF c1.remaining = 0 /\ Len(c1.buffer) >= 2
                 THEN Ret(advance_buffer(c1).c, BitAnd(n1, 1))
                 ELSE Ret(c1, BitAnd(n1, 1))

\* Variant of read_bit: the low bit is taken before the rotation.
read_bit_MaskBeforeRotate(c) ==
    LET a == IF c.remaining = 0 THEN advance_buffer(c) ELSE Ret(c, 0)
    IN  IF a.out # "ok" THEN a
        ELSE Ret([a.c EXCEPT !.remaining = @ - 1, !.n = rotate_left(a.c.n, 1)],
                 BitAnd(a.c.n, 1))

\* Variant of read_bit: the rotated word is not stored back in n.
read_bit_NoRotate(c) ==
    LET a == IF c.remaining = 0 THEN advance_buffer(c) ELSE Ret(c, 0)
    IN  IF a.out # "ok" THEN a
        ELSE Ret([a.c EXCEPT !.remaining = @ - 1],
                 BitAnd(rotate_left(a.c.n, 1), 1))

read_bit(c) ==
    LET a == IF c.remaining = 0 THEN advance_buffer(c) ELSE Ret(c, 0)
    IN  IF a.out # "ok" THEN a
        ELSE LET n1 == rotate_left(a.c.n, 1)
             IN  Ret([a.c EXCEPT !.remaining = @ - 1, !.n = n1], BitAnd(n1, 1))

\* Variant of read_bits: the assertion lets 17 through.
read_bits_LooseAssert(c, bits, debug) ==
    IF bits > 17 THEN Panic(c, "assert")
    ELSE IF bits <= c.remaining
    THEN LET n1 == rotate_left(c.n, bits)
         IN  Ret([c EXCEPT !.remaining = @ - bits, !.n = n1],
                 BitAnd(n1, Mask(bits)))
    ELSE LET hi   == BitAnd(rotate_left(c.n, c.remaining), Mask(c.remaining))
             more == bits - c.remaining
             a    == advance_buffer(c)
         IN  IF a.out # "ok" THEN a
             ELSE LET n1 == rotate_left(a.c.n, more)
                      lo == BitAnd(n1, MaskWide(more))
                  IN  Ret([a.c EXCEPT !.remaining = @ - more, !.n = n1],
                          Combine(hi, more, lo))

\* read_bits; `debug` tells whether the build has debug assertions and
\* arithmetic overflow checks.
read_bits(c, bits, debug) ==
    IF bits > 16 THEN Panic(c, "assert")
    ELSE IF debug /\ c.remaining > 16 THEN Panic(c, "assert")
    ELSE IF bits <= c.remaining
    THEN LET n1 == rotate_left(c.n, bits)
             c1 == [c EXCEPT !.remaining = @ - bits, !.n = n1]
         IN  IF debug /\ ShlOverflows(bits)
             THEN Panic(c1, "shl_overflow")
             ELSE Ret(c1, BitAnd(n1, Mask(bits)))
    ELSE LET hi   == BitAnd(rotate_left(c.n, c.remaining), Mask(c.remaining))
             more == bits - c.remaining
             a    == advance_buffer(c)
         IN  IF a.out # "ok" THEN a
             ELSE LET n1 == rotate_left(a.c.n, more)
                      lo == BitAnd(n1, MaskWide(more))
                  IN  Ret([a.c EXCEPT !.remaining = @ - more, !.n = n1],
                          Combine(hi, more, lo))

\* Variant of PeekNext: ones, not zeros, past the end of the buffer.
PeekNext_OnesPastEnd(c) ==
    IF c.buffer = <<>> THEN Ret(c, U16 - 1)
    ELSE IF Len(c.buffer) < 2 THEN Panic(c, "index_oob")
    ELSE Ret(c, from_le_bytes(c.buffer[1], c.buffer[2]))

\* Variant of PeekNext: zeros even when the buffer has a next word.
PeekNext_AlwaysZero(c) == Ret(c, 0)

\* The word peek_bits looks at past the current one.
PeekNext(c) ==
    IF c.buffer = <<>> THEN Ret(c, 0)
    ELSE IF Len(c.buffer) < 2 THEN Panic(c, "index_oob")
    ELSE Ret(c, from_le_bytes(c.buffer[1], c.buffer[2]))

\* Variant of peek_bits: the load is persisted, as read_bits does.
peek_bits_Advances(c, bits, debug) == read_bits(c, bits, debug)

\* peek_bits takes &self: the cursor it leaves is the cursor it was given.
peek_bits(c, bits, debug) ==
    IF bits > 16 THEN Panic(c, "assert")
    ELSE IF bits <= c.remaining
    THEN IF debug /\ ShlOverflows(bits)
         THEN Panic(c, "shl_overflow")
         ELSE Ret(c, BitAnd(rotate_left(c.n, bits), Mask(bits)))
    ELSE LET hi   == BitAnd(rotate_left(c.n, c.remaining), Mask(c.remaining))
             more == bits - c.remaining
             nx   == PeekNext(c)
         IN  IF nx.out # "ok" THEN nx
             ELSE LET lo == BitAnd(rotate_left(nx.val, more), MaskWide(more))
                  IN  Ret(c, Combine(hi, more, lo))

read_u16_le(c, debug) ==
    LET r == read_bits(c, 16, debug)
    IN  IF r.out # "ok" THEN r ELSE Ret(r.c, swap_bytes(r.val))

\* Variant of read_u32_le: the first read taken as the high half.
read_u32_le_HalvesSwapped(c, debug) ==
    LET lo == read_u16_le(c, debug)
    IN  IF lo.out # "ok" THEN lo
        ELSE LET hi == read_u16_le(lo.c, debug)
             IN  IF hi.out # "ok" THEN hi
                 ELSE Ret(hi.c, Or32(Shl32(AsU32(lo.val), 16), AsU32(hi.val)))

read_u32_le(c, debug) ==
    LET lo == read_u16_le(c, debug)
    IN  IF lo.out # "ok" THEN lo
        ELSE LET hi == read_u16_le(lo.c, debug)
             IN  IF hi.out # "ok" THEN hi
                 ELSE Ret(hi.c, Or32(Shl32(AsU32(hi.val), 16), AsU32(lo.val)))

\* Variant of read_u24_be: the high part read with the byte swap.
read_u24_be_Swapped(c, debug) ==
    LET hi == read_u16_le(c, debug)
    IN  IF hi.out # "ok" THEN hi
        ELSE LET lo == read_bits(hi.c, 8, debug)
             IN  IF lo.out # "ok" THEN lo
                 ELSE Ret(lo.c, Or32(Shl32(AsU32(hi.val), 8), AsU32(lo.val)))

read_u24_be(c, debug) ==
    LET hi == read_bits(c, 16, debug)
    IN  IF hi.out # "ok" THEN hi
        ELSE LET lo == read_bits(hi.c, 8, debug)
             IN  IF lo.out # "ok" THEN lo
                 ELSE Ret(lo.c, Or32(Shl32(AsU32(hi.val), 8), AsU32(lo.val)))

\* Variant of is_empty: the bits left in the word are not looked at.
is_empty_BufferOnly(c, debug) == Ret(c, c.buffer = <<>>)

is_empty(c, debug) ==
    IF c.buffer # <<>> THEN Ret(c, FALSE)
    ELSE LET p == peek_bits(c, c.remaining, debug)
         IN  IF p.out # "ok" THEN p ELSE Ret(c, p.val = 0)

(* ------------------------------- state --------------------------------- *)

VARIABLES
    input,      \* the slice handed to new(), never changed
    buffer,     \* Bitstream::buffer, the bytes not yet loaded
    n,          \* Bitstream::n, the current word, rotated as bits are read
    remaining,  \* Bitstream::remaining
    op,         \* the last method called, "new" at first
    arg,        \* its `bits` argument, 0 when it has none
    result,     \* the value it returned, NoValue when it panicked
    outcome,    \* "ok", or the kind of panic that ended it
    pre,        \* the cursor that call started from
    requested,  \* bits asked for by the mutating reads that returned
    packed,     \* round trip: the [w, v] fields packed into `input`
    nread       \* round trip: how many of them have been read back

vars == <<input, buffer, n, remaining, op, arg, result, outcome, pre,
          requested, packed, nread>>

cursor == [buffer |-> buffer, n |-> n, remaining |-> remaining]

\* The state new(buf) leaves.
Fresh(buf) ==
    /\ input = buf
    /\ buffer = new(buf).buffer
    /\ n = new(buf).n
    /\ remaining = new(buf).remaining
    /\ op = "new"
    /\ arg = 0
    /\ result = NoValue
    /\ outcome = "ok"
    /\ pre = new(buf)
    /\ requested = 0

Init ==
    /\ \E buf \in Inputs : Fresh(buf)
    /\ packed = <<>>
    /\ nread = 0

\* One call on the cursor: `ret` is what the method does from `cursor`.  A
\* panic ends the run: no method is called on the cursor afterwards.
Step(name, a, ret, asked) ==
    /\ outcome = "ok"
    /\ \E r \in {ret} :
        /\ pre' = cursor
        /\ buffer' = r.c.buffer
        /\ n' = r.c.n
        /\ remaining' = r.c.remaining
        /\ op' = name
        /\ arg' = a
        /\ result' = r.val
        /\ outcome' = r.out
        /\ requested' = IF r.out = "ok" THEN requested + asked ELSE requested
    /\ UNCHANGED <<input, packed>>

Call(name, a, ret, asked) == Step(name, a, ret, asked) /\ UNCHANGED nread

CallReadBit == Call("read_bit", 0, read_bit(cursor), 1)

CallReadBits(bits) ==
    \E debug \in BOOLEAN :
        Call("read_bits", bits, read_bits(cursor, bits, debug), bits)

CallPeekBits(bits) ==
    \E debug \in BOOLEAN :
        Call("peek_bits", bits, peek_bits(cursor, bits, debug), 0)

CallReadU16Le ==
    \E debug \in BOOLEAN :
        Call("read_u16_le", 0, read_u16_le(cursor, debug), 16)

CallReadU32Le ==
    \E debug \in BOOLEAN :
        Call("read_u32_le", 0, read_u32_le(cursor, debug), 32)

CallReadU24Be ==
    \E debug \in BOOLEAN :
        Call("read_u24_be", 0, read_u24_be(cursor, debug), 24)

CallIsEmpty ==
    \E debug \in BOOLEAN :
        Call("is_empty", 0, is_empty(cursor, debug), 0)

Next ==
    \/ CallReadBit
    \/ \E bits \in 0..MaxBits : CallReadBits(bits)
    \/ \E bits \in 0..MaxBits : CallPeekBits(bits)
    \/ CallReadU16Le
    \/ CallReadU32Le
    \/ CallReadU24Be
    \/ CallIsEmpty

Spec == Init /\ [][Next]_vars

(* --------------------- read_bit alone: bit order ----------------------- *)

\* Only read_bit is called, so `requested` counts the calls that returned.
SpecReadBit == Init /\ [][CallReadBit]_vars

\* C1: on a fresh cursor the i-th read_bit (i from 0) returns bit
\* 15 - (i mod 16) of the little-endian word made of bytes 2j and 2j+1 of the
\* buffer, j = i div 16: words in buffer order, each most significant bit first.
C1_ReadBitOrder ==
    (op = "read_bit" /\ outcome = "ok") =>
        LET i == requested - 1
            j == i \div 16
            w == input[2 * j + 1] + 256 * input[2 * j + 2]
        IN  result = (w \div 2^(15 - (i % 16))) % 2

\* A one read from the second word of the buffer.
C1_Witness ==
    op = "read_bit" /\ outcome = "ok" /\ requested > 16 /\ result = 1

(* ------------------- read_bits against read_bit ------------------------ *)

\* The bits of n not yet consumed: its top `remaining` bits.
Unconsumed(c) == c.n \div 2^(16 - c.remaining)

SameCursor(a, b) ==
    /\ a.buffer = b.buffer
    /\ a.remaining = b.remaining
    /\ Unconsumed(a) = Unconsumed(b)

RECURSIVE ReadBitTimes(_, _, _)
\* count calls of read_bit from c, the earliest bit most significant
ReadBitTimes(c, count, acc) ==
    IF count = 0 THEN Ret(c, acc)
    ELSE LET r == read_bit(c)
         IN  IF r.out # "ok" THEN r
             ELSE ReadBitTimes(r.c, count - 1, 2 * acc + r.val)

\* C2: wherever count <= 16 successive read_bit calls all return,
\* read_bits(count) returns their bits, earliest first, and leaves the same
\* buffer, unconsumed bits and remaining, across a word boundary too.
C2_ReadBitsIsReadBitTimes ==
    (op = "read_bits" /\ arg <= 16) =>
        LET s == ReadBitTimes(pre, arg, 0)
        IN  s.out = "ok" =>
                /\ outcome = "ok"
                /\ result = s.val
                /\ SameCursor(cursor, s.c)

\* A read_bits that took bits of two words, ones among both parts.
C2_Witness ==
    /\ op = "read_bits" /\ outcome = "ok"
    /\ pre.remaining > 0 /\ arg > pre.remaining
    /\ result \div 2^(arg - pre.remaining) > 0
    /\ result % 2^(arg - pre.remaining) > 0
    /\ result < 2^arg - 1

(* ----------------------------- round trip ------------------------------ *)

\* The w bits of v, most significant first.
BitsOf(v, w) == [i \in 1..w |-> (v \div 2^(w - i)) % 2]

RECURSIVE AllBits(_)
AllBits(fields) ==
    IF fields = <<>> THEN <<>>
    ELSE BitsOf(Head(fields).v, Head(fields).w) \o AllBits(Tail(fields))

\* Zero bits up to a whole number of 16-bit words.
Padded(bs) == bs \o [i \in 1..((16 - (Len(bs) % 16)) % 16) |-> 0]

RECURSIVE WordOf(_, _, _)
\* The word whose bits, most significant first, are bs[from+1 .. from+16].
WordOf(bs, from, i) ==
    IF i > 16 THEN 0
    ELSE (bs[from + i] * 2^(16 - i)) + WordOf(bs, from, i + 1)

\* u16::to_le_bytes
to_le_bytes(w) == <<w % 256, w \div 256>>

\* The byte stream of tests::read_sequential: the fields packed MSB-first
\* into 16-bit words, each word stored as its little-endian bytes.
Pack(fields) ==
    LET bs == Padded(AllBits(fields))
    IN  [i \in 1..(Len(bs) \div 8) |->
            to_le_bytes(WordOf(bs, 16 * ((i - 1) \div 2), 1))[2 - (i % 2)]]

InitRoundTrip ==
    /\ packed \in PackedSeqs
    /\ Fresh(Pack(packed))
    /\ nread = 0

\* read_bits of the next packed field's width
ReadNext ==
    /\ nread < Len(packed)
    /\ \E debug \in BOOLEAN :
        Step("read_bits", packed[nread + 1].w,
             read_bits(cursor, packed[nread + 1].w, debug), packed[nread + 1].w)
    /\ nread' = nread + 1

SpecRoundTrip == InitRoundTrip /\ [][ReadNext]_vars

\* C3: values v1..vk of widths b1..bk (bi <= 16, vi < 2^bi) packed MSB-first
\* into zero-padded 16-bit words stored little-endian are returned, in order,
\* by read_bits(b1), ..., read_bits(bk) on a fresh cursor over those bytes.
C3_RoundTrip ==
    nread >= 1 =>
        /\ op = "read_bits"
        /\ outcome = "ok"
        /\ result = packed[nread].v

\* The last of at least three fields read back, from two words, not zero.
C3_Witness ==
    /\ nread = Len(packed) /\ nread >= 3
    /\ outcome = "ok"
    /\ pre.remaining > 0 /\ arg > pre.remaining
    /\ result > 0

\* The bytes tests::read_sequential builds from its two words.
PackMatchesReadSequential == Pack(SequentialFields) = <<93, 110, 104, 226>>

(* ------------------------- failures of the reads ----------------------- *)

\* The call has to load a word: read_bit with no bit left, read_bits asked
\* for more bits than are left.
NeedsLoad ==
    \/ op = "read_bit" /\ pre.remaining = 0
    \/ op = "read_bits" /\ arg <= 16 /\ arg > pre.remaining

\* C4: a read that has to load a word when fewer than two bytes are left
\* ends with a recoverable error value ("err"), not with a panic.
C4_UnderflowIsRecoverable ==
    (NeedsLoad /\ Len(pre.buffer) < 2) => outcome = "err"

(* ------------------------------ peek_bits ------------------------------ *)

\* The next word of the buffer, the bytes missing past its end taken as zero.
NextWordZeroFilled(buf) ==
    (IF Len(buf) >= 1 THEN buf[1] ELSE 0)
        + 256 * (IF Len(buf) >= 2 THEN buf[2] ELSE 0)

\* The next `bits` bits from c with zeros past the end of the buffer.
ZeroFilledBits(c, bits) ==
    IF bits <= c.remaining
    THEN Unconsumed(c) \div 2^(c.remaining - bits)
    ELSE (Unconsumed(c) * 2^(bits - c.remaining))
            + (NextWordZeroFilled(c.buffer) \div 2^(16 - (bits - c.remaining)))

\* C5: peek_bits(count), count <= 16, never fails at the end of the buffer,
\* whatever its length: the bytes missing past the end read as zero.
C5_PeekNeverFails ==
    (op = "peek_bits" /\ arg <= 16) =>
        /\ outcome = "ok"
        /\ result = ZeroFilledBits(pre, arg)

\* C6: peek_bits leaves buffer, n and remaining as they were; the same peek
\* made twice in a row returns the same value, and a read_bits made after a
\* peek returns what it returns from the cursor the peek started from.
C6_PeekLeavesCursor ==
    [][ /\ op' = "peek_bits" => cursor' = cursor
        /\ (op = "peek_bits" /\ op' = "peek_bits" /\ arg' = arg)
              => (outcome' = outcome /\ result' = result)
        /\ (op = "peek_bits" /\ op' = "read_bits")
              => \E debug \in BOOLEAN :
                    LET r == read_bits(pre, arg', debug)
                    IN  outcome' = r.out /\ result' = r.val
      ]_vars

\* A peek that returned bits of the word after the current one.
C6_Witness ==
    /\ op = "peek_bits" /\ outcome = "ok"
    /\ arg > pre.remaining
    /\ result % 2^(arg - pre.remaining) > 0

\* C7: wherever read_bits(count) returns, count <= 16, peek_bits(count) from
\* the same cursor returns the same value.
C7_PeekAgreesWithRead ==
    (op = "read_bits" /\ outcome = "ok") =>
        \A debug \in BOOLEAN :
            LET p == peek_bits(pre, arg, debug)
            IN  p.out = "ok" /\ p.val = result

\* A read_bits that loaded a word and returned ones from it.
C7_Witness ==
    /\ op = "read_bits" /\ outcome = "ok"
    /\ arg > pre.remaining
    /\ result % 2^(arg - pre.remaining) > 0
    /\ Len(buffer) >= 2

(* ------------------------- read_bit and read_bits(1) ------------------- *)

\* C8: from the same cursor read_bit and read_bits(1) return the same bit and
\* leave the same buffer, unconsumed bits and remaining, and one fails on a
\* buffer underflow exactly when the other does.
C8_ReadBitIsReadBits1 ==
    op = "read_bit" =>
        \A debug \in BOOLEAN :
            LET r == read_bits(pre, 1, debug)
            IN  /\ r.out = outcome
                /\ outcome = "ok" => (r.val = result /\ SameCursor(r.c, cursor))

\* A read_bit that loaded a word and returned a one, zeros left after it.
C8_Witness ==
    /\ op = "read_bit" /\ outcome = "ok"
    /\ pre.remaining = 0
    /\ result = 1
    /\ Unconsumed(cursor) < 2^15 - 1

(* ------------------------- the integer reads --------------------------- *)

\* C9 as stated: on a word boundary, with b0 then b1 next in the buffer,
\* read_u16_le returns b0 + 256 * b1.
C9_ReadU16LeIsLittleEndian ==
    (op = "read_u16_le" /\ pre.remaining = 0 /\ Len(pre.buffer) >= 2) =>
        /\ outcome = "ok"
        /\ result = pre.buffer[1] + 256 * pre.buffer[2]

\* C9 amended: on a word boundary, with b0 then b1 next in the buffer,
\* read_u16_le returns 256 * b0 + b1, the byte swap of the little-endian word
\* (tests::read_16le_aligned: bytes 0x07, 0xE0 give 0x07E0).
C9_ReadU16LeIsSwappedWord ==
    (op = "read_u16_le" /\ pre.remaining = 0 /\ Len(pre.buffer) >= 2) =>
        /\ outcome = "ok"
        /\ result = 256 * pre.buffer[1] + pre.buffer[2]

\* An aligned read_u16_le over two different bytes.
C9_Witness ==
    /\ op = "read_u16_le" /\ outcome = "ok"
    /\ pre.remaining = 0
    /\ pre.buffer[1] # pre.buffer[2]

\* Cursors off the word boundary over six-byte buffers, for the 32-bit and
\* 24-bit reads.
InitWide ==
    /\ \E buf \in WideInputs : Fresh(buf)
    /\ packed = <<>>
    /\ nread = 0

NextWide ==
    \/ \E bits \in WideBits : CallReadBits(bits)
    \/ CallReadU16Le
    \/ CallReadU32Le
    \/ CallReadU24Be

SpecWide == InitWide /\ [][NextWide]_vars

\* Bits a cursor can still hand out: those left of the word and the whole
\* words of the buffer.
Available(c) == c.remaining + 16 * (Len(c.buffer) \div 2)

\* C10: with at least 32 bits available read_u32_le consumes 32 bits and
\* returns (second << 16) | first, first and second being what two successive
\* read_u16_le return from there; bytes 0x56 0x78 0x12 0x34 give 0x12345678.
C10_ReadU32Le ==
    (op = "read_u32_le" /\ Available(pre) >= 32) =>
        /\ outcome = "ok"
        /\ Available(pre) - Available(cursor) = 32
        /\ \A debug \in BOOLEAN :
            LET first  == read_u16_le(pre, debug)
                second == read_u16_le(first.c, debug)
            IN  /\ result = <<second.val, first.val>>
                /\ SameCursor(cursor, second.c)
        /\ pre = new(<<86, 120, 18, 52>>) => result = <<4660, 22136>>

\* A read_u32_le off the word boundary whose halves differ.
C10_Witness ==
    /\ op = "read_u32_le" /\ outcome = "ok"
    /\ pre.remaining \notin {0, 16}
    /\ result[1] # result[2]
    /\ result[1] > 0 /\ result[2] > 0

\* C11: from any position with at least 24 bits available read_u24_be
\* consumes 24 bits and returns the integer whose bits, most significant
\* first, are those 24 bits in the order read_bit hands them out.
C11_ReadU24Be ==
    (op = "read_u24_be" /\ Available(pre) >= 24) =>
        /\ outcome = "ok"
        /\ Available(pre) - Available(cursor) = 24
        /\ LET s == ReadBitTimes(pre, 24, 0)
           IN  /\ s.out = "ok"
               /\ result[1] < 256
               /\ (result[1] * U16) + result[2] = s.val
               /\ SameCursor(cursor, s.c)

\* A read_u24_be that took bits of three words.
C11_Witness ==
    /\ op = "read_u24_be" /\ outcome = "ok"
    /\ pre.remaining \in 1..7
    /\ result[1] > 0 /\ result[2] % 256 > 0

(* ------------------------------ is_empty ------------------------------- *)

\* C12 as stated: is_empty returns true exactly when fewer than two unloaded
\* bytes are left and the unconsumed bits of the word are all zero.
C12_IsEmptyFewerThanTwoBytes ==
    op = "is_empty" =>
        /\ outcome = "ok"
        /\ result = (Len(pre.buffer) < 2 /\ Unconsumed(pre) = 0)

\* C12 amended: is_empty returns true exactly when no unloaded byte is left
\* and the unconsumed bits of the word are all zero; so it is true on a fresh
\* cursor over no bytes, and over 0xAB 0xCD false at first, false after 15
\* bits and true after the 16th.
C12_IsEmptyNoBytes ==
    op = "is_empty" =>
        /\ outcome = "ok"
        /\ result = (pre.buffer = <<>> /\ Unconsumed(pre) = 0)
        /\ input = <<>> => result
        /\ input = <<171, 205>> => (result = (requested = 16))

\* is_empty true with zero bits still unconsumed, after ones were read.
C12_Witness ==
    /\ op = "is_empty" /\ outcome = "ok"
    /\ result = TRUE
    /\ pre.remaining > 0
    /\ pre.n > 0

(* --------------------------- the bits <= 16 contract ------------------- *)

\* C13: read_bits(count) and peek_bits(count) with count > 16 end in the
\* assertion, with buffer, n and remaining untouched and no value returned.
C13_MoreThan16Asserts ==
    (op \in {"read_bits", "peek_bits"} /\ arg > 16) =>
        /\ outcome = "assert"
        /\ result = NoValue
        /\ cursor = pre

\* read_bits(17) refused while bits and bytes were there to take.
C13_Witness ==
    /\ op = "read_bits" /\ arg > 16
    /\ outcome = "assert"
    /\ pre.remaining > 0 /\ Len(pre.buffer) >= 2

(* ---------------------- peek_bits past the end ------------------------- *)

\* C14: with no unloaded byte left and remaining < count <= 16,
\* peek_bits(count) returns the unconsumed bits followed by count - remaining
\* zeros: their value times 2^(count - remaining).
C14_PeekPadsWithZeros ==
    (op = "peek_bits" /\ pre.buffer = <<>>
        /\ pre.remaining < arg /\ arg <= 16) =>
        /\ outcome = "ok"
        /\ result = Unconsumed(pre) * 2^(arg - pre.remaining)

\* Such a peek with ones among the unconsumed bits.
C14_Witness ==
    /\ op = "peek_bits" /\ outcome = "ok"
    /\ pre.buffer = <<>>
    /\ pre.remaining > 0 /\ arg > pre.remaining
    /\ result > 0

(* ------------------------- remaining and buffer ------------------------ *)

\* C15: remaining stays within 0..16 whatever is called, and no decrement
\* takes it below zero.
C15_RemainingInRange == remaining \in 0..16 /\ pre.remaining \in 0..16

\* A read of a whole word: remaining set to 16 by the load, then down to 0.
C15_Witness ==
    /\ op = "read_bits" /\ outcome = "ok"
    /\ pre.remaining = 0 /\ arg = 16
    /\ remaining = 0

\* Bits the last call asked for.
Asked == IF op = "read_bit" THEN 1 ELSE arg

\* C16: read_bits(count <= 16) fails exactly when count > remaining and
\* fewer than two bytes are unloaded, read_bit exactly when remaining = 0 and
\* fewer than two bytes are unloaded; so over 2k bytes the reads succeed up
\* to a total of 16k bits and the first to pass it fails.
C16_UnderflowIsExact ==
    (op \in {"read_bit", "read_bits"} /\ arg <= 16) =>
        /\ (outcome # "ok") = (NeedsLoad /\ Len(pre.buffer) < 2)
        /\ outcome \in {"ok", "index_oob"}
        /\ Len(input) % 2 = 0 =>
              /\ outcome = "ok" => requested <= 8 * Len(input)
              /\ outcome # "ok" => requested + Asked > 8 * Len(input)

\* The very last bit of a buffer taken with success.
C16_Witness ==
    /\ op \in {"read_bit", "read_bits"} /\ outcome = "ok"
    /\ Asked > 0
    /\ Len(input) >= 2
    /\ requested = 8 * Len(input)

\* C17: after successful reads the view is the input less an even number
\* of leading bytes, 8 * (bytes removed) - remaining is the number of bits
\* requested so far, a read of count <= remaining leaves the view alone and
\* a read of count > remaining takes two bytes off its front.
C17_BitAccounting ==
    outcome = "ok" =>
        /\ \E k \in 0..(Len(input) \div 2) :
              buffer = SubSeq(input, 2 * k + 1, Len(input))
        /\ (8 * (Len(input) - Len(buffer))) - remaining = requested
        /\ op \in {"read_bit", "read_bits"} =>
              IF Asked <= pre.remaining
              THEN buffer = pre.buffer
              ELSE buffer = SubSeq(pre.buffer, 3, Len(pre.buffer))

\* A read that loaded the second word of a buffer with more bytes behind it.
C17_Witness ==
    /\ op = "read_bits" /\ outcome = "ok"
    /\ pre.remaining > 0 /\ arg > pre.remaining
    /\ Len(input) - Len(buffer) = 4

(* ---------------------------- failed reads ----------------------------- *)

\* C18: a read_bit or read_bits that fails for want of two bytes to load
\* leaves buffer, n and remaining as they were before the call.
C18_FailedReadConsumesNothing ==
    (op \in {"read_bit", "read_bits"} /\ arg <= 16 /\ outcome # "ok") =>
        cursor = pre

(* ------------------------ emptiness once reached ----------------------- *)

\* is_empty() would return true from c.
IsEmptyAt(c) ==
    \A debug \in BOOLEAN :
        LET e == is_empty(c, debug) IN e.out = "ok" /\ e.val

\* C19: from a state where is_empty() is true, every read_bit / read_bits
\* that returns gives 0 and leaves is_empty() true.
C19_EmptinessIsAbsorbing ==
    [][ (IsEmptyAt(cursor) /\ op' \in {"read_bit", "read_bits"}
            /\ outcome' = "ok")
          => (result' = 0 /\ IsEmptyAt(cursor')) ]_vars

\* Zero padding bits read from an empty cursor after ones were read.
C19_Witness ==
    /\ op \in {"read_bit", "read_bits"} /\ outcome = "ok"
    /\ Asked > 0
    /\ IsEmptyAt(pre)
    /\ pre.n > 0

(* ------------------------- remaining at entry -------------------------- *)

\* C20: a state left by successful calls has remaining <= 15, so there
\* read_bits(16) and peek_bits(16) take the cross-word branch, is_empty's
\* peek_bits(remaining) the same-word branch, and no call of bits <= 16
\* shifts a u16 by 16.
C20_RemainingAtMost15 ==
    outcome = "ok" =>
        /\ remaining <= 15
        /\ \A bits \in 0..16 :
              /\ read_bits(cursor, bits, TRUE).out # "shl_overflow"
              /\ peek_bits(cursor, bits, TRUE).out # "shl_overflow"
        /\ is_empty(cursor, TRUE).out # "shl_overflow"
        /\ read_u16_le(cursor, TRUE).out # "shl_overflow"
        /\ read_u24_be(cursor, TRUE).out # "shl_overflow"

\* read_bits(16) made with 15 bits left in the word.
C20_Witness ==
    /\ op = "read_bits" /\ outcome = "ok"
    /\ arg = 16
    /\ pre.remaining = 15

====
